---- MODULE Spec2Model ----
(***************************************************************************)
(* A model of prepare_data.py: loading the reference table, the seeded     *)
(* 4-fold assignment, the folds/ directory tree, load_ecg and the          *)
(* per-record np.save sequence of main().                                  *)
(*                                                                         *)
(* One step of the model is one statement (or one short straight-line      *)
(* group of statements) of main(), so that the states between two np.save  *)
(* calls and the state left by an uncaught exception are states of the     *)
(* model.                                                                  *)
(***************************************************************************)
EXTENDS Integers, Sequences, FiniteSets, TLC

VARIABLES
    csvPresent,        \* whether REF_CSV exists on disk
    csv,               \* rows of REF_CSV: <<[record, label], ...>>
    store,             \* per record: which signal files exist under MAT_DIR / HEA_DIR
    tree,              \* the folds/ tree: [dirs, files]
    run,               \* number of invocations of main() started so far
    pc,                \* position of the running invocation in main()
    ref,               \* the filtered reference table (with int_label)
    recs,              \* ref['record'].values
    fold_map,          \* dict record -> test fold index
    fold_records,      \* dict fold index -> list of records (test)
    combined_records,  \* dict fold index -> list of records (train)
    pos,               \* loop position: [i, phase, idx]
    loc,               \* locals of the loop body: rec, raw, proc, lbl, out
    err,               \* the uncaught exception that ended the invocation, if any
    printed,           \* whether the completion message was printed by this invocation
    prev               \* fold assignment of the previous invocation (observer for determinism)

vars == <<csvPresent, csv, store, tree, run, pc, ref, recs, fold_map, fold_records,
          combined_records, pos, loc, err, printed, prev>>

(***************************************************************************)
(* Program constants                                                       *)
(***************************************************************************)
N_FOLDS == 4
SEED == 42
LABEL_MAP == [N |-> 0, A |-> 1, O |-> 2]
FoldIdx == 0 .. (N_FOLDS - 1)

(***************************************************************************)
(* Bounds of the model                                                     *)
(***************************************************************************)
MaxRows == 6
MaxRuns == 2

(***************************************************************************)
(* Small helpers on sequences                                              *)
(***************************************************************************)
Range(s) == {s[k] : k \in DOMAIN s}

RECURSIVE SumTo(_, _)
SumTo(f, k) == IF k < 0 THEN 0 ELSE f[k] + SumTo(f, k - 1)

RECURSIVE ConcatDigits(_)
\* "".join(str(j) for j in s)
ConcatDigits(s) == IF s = <<>> THEN "" ELSE ToString(Head(s)) \o ConcatDigits(Tail(s))

RECURSIVE Ascending(_, _)
\* the members of S below N_FOLDS in increasing order, from k on (range(N_FOLDS) if ...)
Ascending(S, k) ==
    IF k >= N_FOLDS THEN <<>>
    ELSE (IF k \in S THEN <<k>> ELSE <<>>) \o Ascending(S, k + 1)

(***************************************************************************)
(* Arrays.  An array is [dtype, data, via]: its element type, its samples  *)
(* and the transforms of utils applied to it so far.                       *)
(***************************************************************************)
\* m['val'] / m['ecg'] as loadmat returns them: a 1 x L matrix
MatVar(rec, key) ==
    IF key = "val" THEN << <<10 * rec + 1, 10 * rec + 2>> >>
                   ELSE << <<10 * rec + 3, 10 * rec + 4>> >>

\* rdsamp's signal: an L x 2 matrix (rows are samples, columns are channels)
WfdbSignal(rec) == << <<10 * rec + 5, 10 * rec + 6>>, <<10 * rec + 7, 10 * rec + 8>> >>

\* ndarray.squeeze() of a 1 x L matrix
Squeeze(m) == IF Len(m) = 1 THEN m[1] ELSE [k \in DOMAIN m |-> m[k][1]]

\* signal[:, 0]
Column0(m) == [k \in DOMAIN m |-> m[k][1]]

\* ecg.astype(np.float32)
AsFloat32(samples) == [dtype |-> "float32", data |-> samples, via |-> <<>>]

\* what np.save stores for a Python int
IntArray(n) == [dtype |-> "int64", data |-> <<n>>, via |-> <<>>]

\* utils.signal_processing and utils.normalization_processing: opaque pure transforms
signal_processing(x) == [x EXCEPT !.via = Append(@, "signal_processing")]
normalization_processing(x) == [x EXCEPT !.via = Append(@, "normalization_processing")]

(***************************************************************************)
(* load_ecg                                                                *)
(***************************************************************************)
NoErr == [type |-> "none", line |-> 0, rec |-> 0]
Raise(t, l, r) == [type |-> t, line |-> l, rec |-> r]
NoArray == [dtype |-> "none", data |-> <<>>, via |-> <<>>]

Returned(x) == [ok |-> TRUE, value |-> x, exc |-> NoErr]
Raised(e) == [ok |-> FALSE, value |-> NoArray, exc |-> e]

\* wfdb.rdsamp(wfdb_path): reads the header file first, then the samples
Rdsamp(f, rec) ==
    IF f.hea THEN Returned(AsFloat32(Column0(WfdbSignal(rec))))
    ELSE Raised(Raise("FileNotFoundError", 47, rec))

\* a load_ecg that consults the WFDB pair before the MATLAB file
LoadEcgWfdbFirst(st, rec) ==
    LET f == st[rec] IN
    IF f.dat THEN Rdsamp(f, rec)
    ELSE IF f.mat THEN
        IF "val" \in f.keys THEN Returned(AsFloat32(Squeeze(MatVar(rec, "val"))))
        ELSE IF "ecg" \in f.keys THEN Returned(AsFloat32(Squeeze(MatVar(rec, "ecg"))))
        ELSE Raised(Raise("KeyError", 44, rec))
    ELSE Raised(Raise("FileNotFoundError", 50, rec))

\* a load_ecg that prefers 'ecg' and falls through to WFDB when no variable is found
LoadEcgFallThrough(st, rec) ==
    LET f == st[rec] IN
    IF f.mat /\ "ecg" \in f.keys THEN Returned(AsFloat32(Squeeze(MatVar(rec, "ecg"))))
    ELSE IF f.mat /\ "val" \in f.keys THEN Returned(AsFloat32(Squeeze(MatVar(rec, "val"))))
    ELSE IF f.dat THEN Rdsamp(f, rec)
    ELSE Raised(Raise("FileNotFoundError", 50, rec))

LoadEcg(st, rec) ==
    LET f == st[rec] IN
    IF f.mat THEN
        IF "val" \in f.keys THEN Returned(AsFloat32(Squeeze(MatVar(rec, "val"))))
        ELSE IF "ecg" \in f.keys THEN Returned(AsFloat32(Squeeze(MatVar(rec, "ecg"))))
        ELSE Raised(Raise("KeyError", 44, rec))
    ELSE IF f.dat THEN Rdsamp(f, rec)
    ELSE Raised(Raise("FileNotFoundError", 50, rec))

(***************************************************************************)
(* The folds/ tree.  A directory is a path below FOLDS_DIR (<<>> is        *)
(* FOLDS_DIR itself); a file is [dir, name, content, run], run being the   *)
(* invocation that wrote it (0: it was there before the first one).        *)
(***************************************************************************)
SingleName(i) == "fold" \o ToString(i)
CombinedName(i) == "fold" \o ConcatDigits(Ascending(FoldIdx \ {i}, 0))
Subs == {"data", "label"}
Classes == {"AF", "normal", "other"}

\* every prefix of a path: os.makedirs creates the missing parents
Prefixes(p) == {SubSeq(p, 1, k) : k \in 0 .. Len(p)}

\* the directories make_dirs() creates
Layout ==
    UNION ({Prefixes(<<SingleName(i), sub>>) : i \in FoldIdx, sub \in Subs}
           \cup {Prefixes(<<CombinedName(i), sub>>) : i \in FoldIdx, sub \in Subs}
           \cup {Prefixes(<<SingleName(i), cls, sub>>) : i \in FoldIdx, cls \in Classes, sub \in Subs})

NoTree == [dirs |-> {}, files |-> {}]

MakeDirsTree(t) == [t EXCEPT !.dirs = @ \cup Layout]

\* main() without step 0
RemoveOldKeep(t) == t

\* if os.path.exists(FOLDS_DIR): shutil.rmtree(FOLDS_DIR)
RemoveOld(t) == IF <<>> \in t.dirs THEN NoTree ELSE t

\* np.save(os.path.join(FOLDS_DIR, *dir, name), content)
NpSave(t, dir, name, content) ==
    [t EXCEPT !.files = {f \in @ : ~(f.dir = dir /\ f.name = name)}
                        \cup {[dir |-> dir, name |-> name, content |-> content, run |-> run]}]

\* out = f"{idx+1}.npy"
OutNameOffByOne(idx) == ToString(idx + 1) \o ".npy"

\* out = f"{idx}.npy"
OutName(idx) == ToString(idx) \o ".npy"

\* {0:"AF",1:"normal",2:"other"}[lbl]
ClassDirSwapped(lbl) == IF lbl = 0 THEN "AF" ELSE IF lbl = 1 THEN "normal" ELSE "other"

\* {0:"normal",1:"AF",2:"other"}[lbl]
ClassDir(lbl) == IF lbl = 0 THEN "normal" ELSE IF lbl = 1 THEN "AF" ELSE "other"

\* data written where the label belongs
TestDataDirWrong(i) == <<SingleName(i), "label">>

TestDataDir(i) == <<SingleName(i), "data">>
TestLabelDir(i) == <<SingleName(i), "label">>
ClassDataDir(i, cls) == <<SingleName(i), cls, "data">>
ClassLabelDir(i, cls) == <<SingleName(i), cls, "label">>
TrainDataDir(i) == <<CombinedName(i), "data">>
TrainLabelDir(i) == <<CombinedName(i), "label">>

(***************************************************************************)
(* The reference table and the fold assignment                             *)
(***************************************************************************)
\* a loader without the isin filter: every row is kept (a label LABEL_MAP does not
\* know gets no class of its own; it is given the last one here)
FilterRefKeepAll(rows) ==
    [k \in DOMAIN rows |->
        [record |-> rows[k].record, label |-> rows[k].label,
         int_label |-> IF rows[k].label \in DOMAIN LABEL_MAP
                       THEN LABEL_MAP[rows[k].label] ELSE 2]]

\* ref = ref[ref.label.isin(LABEL_MAP)].copy(); ref['int_label'] = ref.label.map(LABEL_MAP)
FilterRef(rows) ==
    LET kept == SelectSeq(rows, LAMBDA row : row.label \in DOMAIN LABEL_MAP) IN
    [k \in DOMAIN kept |->
        [record |-> kept[k].record, label |-> kept[k].label,
         int_label |-> LABEL_MAP[kept[k].label]]]

\* ref.loc[ref.record == rec, 'int_label']: the int_label of every row of that record
Lookup(table, rec) ==
    LET hit == SelectSeq(table, LAMBDA row : row.record = rec) IN
    [k \in DOMAIN hit |-> hit[k].int_label]

\* numpy.random.RandomState(42).shuffle(numpy.arange(n)): the Mersenne Twister seeded
\* with 42 and numpy's legacy Fisher-Yates shuffle give these orders (0-based indices)
SeededShuffle(seed, n) ==
    CASE seed = 42 /\ n = 4 -> <<1, 3, 0, 2>>
      [] seed = 42 /\ n = 5 -> <<1, 4, 2, 0, 3>>
      [] seed = 42 /\ n = 6 -> <<0, 1, 5, 2, 4, 3>>
      [] seed = 42 /\ n = 7 -> <<0, 1, 5, 2, 4, 3, 6>>
      [] seed = 42 /\ n = 8 -> <<1, 5, 0, 7, 2, 4, 3, 6>>

\* KFold(..., shuffle=True, random_state=None): a different order on every invocation
ShuffledIndicesUnseeded(n) ==
    [k \in 1 .. n |-> SeededShuffle(SEED, n)[((k - 1 + run) % n) + 1]]

\* KFold(n_splits=N_FOLDS, shuffle=True, random_state=SEED): the shuffled indices
ShuffledIndices(n) == SeededShuffle(SEED, n)

\* KFold: the first n % n_splits folds have n // n_splits + 1 samples, the others n // n_splits
FoldSize(n, i) == (n \div N_FOLDS) + (IF i < n % N_FOLDS THEN 1 ELSE 0)
FoldStart(n, i) == SumTo([j \in FoldIdx |-> FoldSize(n, j)], i - 1)

\* the i-th test_idx of kf.split(recs): a set of 0-based positions
TestIdx(n, i) ==
    {ShuffledIndices(n)[k + 1] : k \in FoldStart(n, i) .. (FoldStart(n, i) + FoldSize(n, i) - 1)}

\* for i, (_, test_idx) in enumerate(kf.split(recs)): for r in recs[test_idx]: fold_map[r] = i
\* (a later fold overwrites an earlier one for a record that occurs twice)
FoldMapOf(rs) ==
    LET n == Len(rs)
        foldsOf(r) == {i \in FoldIdx : \E p \in TestIdx(n, i) : rs[p + 1] = r}
    IN [r \in Range(rs) |-> CHOOSE i \in foldsOf(r) : \A j \in foldsOf(r) : j <= i]

\* fold_records[i] after "for r in recs: fold_records[fold_map[r]].append(r)"
FoldRecordsOf(rs, fm) == [i \in FoldIdx |-> SelectSeq(rs, LAMBDA r : fm[r] = i)]

\* a train list that keeps the records of the fold's own test set
CombinedOfSame(rs, fm, i) == SelectSeq(rs, LAMBDA r : fm[r] = i)

\* combined_records[i] = [r for r in recs if fold_map[r] != i]
CombinedOf(rs, fm, i) == SelectSeq(rs, LAMBDA r : fm[r] # i)

(***************************************************************************)
(* The loop of step 5: position [i, phase, idx]                            *)
(***************************************************************************)
Finished == [i |-> N_FOLDS, phase |-> "none", idx |-> 0]

ListAt(p) == IF p.phase = "test" THEN fold_records[p.i] ELSE combined_records[p.i]

RECURSIVE Settle(_)
\* the next position that holds a record, from p on: the two inner loops of fold p.i,
\* then the next fold
Settle(p) ==
    IF p.i >= N_FOLDS THEN Finished
    ELSE IF p.idx < Len(ListAt(p)) THEN p
    ELSE IF p.phase = "test" THEN Settle([i |-> p.i, phase |-> "train", idx |-> 0])
    ELSE Settle([i |-> p.i + 1, phase |-> "test", idx |-> 0])

Advance(p) == Settle([p EXCEPT !.idx = @ + 1])

NoLoc == [rec |-> 0, raw |-> NoArray, proc |-> NoArray, lbl |-> -1, out |-> ""]
EmptyMap == [r \in {} |-> 0]
EmptyLists == [i \in FoldIdx |-> <<>>]
NoPrev == [assigned |-> FALSE, map |-> EmptyMap, test |-> EmptyLists, train |-> EmptyLists]

(***************************************************************************)
(* Inputs: the reference table, the signal files, the tree found on disk   *)
(***************************************************************************)
KnownLabels == <<"N", "A", "O">>

\* a reference table of n rows: labels cycle through N, A, O from an offset (stride 1)
\* or repeat one label (stride 0); the rows in `dropped` carry the label "~", which
\* LABEL_MAP does not know; row `dup` (if not 0) repeats the identifier of row 1
Rows(n, off, stride, dropped, dup) ==
    [k \in 1 .. n |->
        [record |-> IF k = dup THEN 1 ELSE k,
         label  |-> IF k \in dropped THEN "~"
                    ELSE KnownLabels[((off + stride * (k - 1)) % 3) + 1]]]

Faults(n) ==
    {[kind |-> "none", row |-> 0]}
    \cup {[kind |-> k, row |-> j] : k \in {"novar", "missing"}, j \in 1 .. n}
    \cup {[kind |-> "dup", row |-> j] : j \in 2 .. n}

\* the signal files of a healthy record: the four ways load_ecg can succeed
BaseFiles(rec) ==
    CASE rec % 4 = 1 -> [mat |-> TRUE,  keys |-> {"val"},        dat |-> TRUE,  hea |-> TRUE]
      [] rec % 4 = 2 -> [mat |-> TRUE,  keys |-> {"ecg"},        dat |-> FALSE, hea |-> FALSE]
      [] rec % 4 = 3 -> [mat |-> FALSE, keys |-> {},             dat |-> TRUE,  hea |-> TRUE]
      [] rec % 4 = 0 -> [mat |-> TRUE,  keys |-> {"val", "ecg"}, dat |-> TRUE,  hea |-> FALSE]

StoreFor(n, fault) ==
    [rec \in 1 .. n |->
        IF fault.row = rec /\ fault.kind = "novar"
            THEN [mat |-> TRUE, keys |-> {}, dat |-> TRUE, hea |-> TRUE]
        ELSE IF fault.row = rec /\ fault.kind = "missing"
            THEN [mat |-> FALSE, keys |-> {}, dat |-> FALSE, hea |-> TRUE]
        ELSE BaseFiles(rec)]

StaleArray == [dtype |-> "float32", data |-> <<99>>, via |-> <<>>]

\* a tree left by some earlier use of the directory: the layout, a foreign directory,
\* a data file and a label file that has no data file
StaleTree ==
    [dirs  |-> Layout \cup {<<"old">>},
     files |-> {[dir |-> <<"fold0", "data">>, name |-> "0.npy", content |-> StaleArray, run |-> 0],
                [dir |-> <<"fold0", "AF", "label">>, name |-> "7.npy", content |-> IntArray(1), run |-> 0],
                [dir |-> <<"fold123", "label">>, name |-> "9.npy", content |-> IntArray(2), run |-> 0]}]

InitLocals ==
    /\ ref = <<>>
    /\ recs = <<>>
    /\ fold_map = EmptyMap
    /\ fold_records = EmptyLists
    /\ combined_records = EmptyLists
    /\ pos = Finished
    /\ loc = NoLoc
    /\ err = NoErr
    /\ printed = FALSE

Init ==
    /\ \/ /\ csvPresent = TRUE
          /\ \E n \in N_FOLDS .. MaxRows, off \in 0 .. 2, stride \in 0 .. 1 :
             \E dropped \in {{}} \cup {{k} : k \in 1 .. n} :
             \E fault \in Faults(n) :
                /\ csv = Rows(n, off, stride, dropped,
                              IF fault.kind = "dup" THEN fault.row ELSE 0)
                /\ store = StoreFor(n, fault)
       \/ /\ csvPresent = FALSE
          /\ csv = <<>>
          /\ store = StoreFor(N_FOLDS, [kind |-> "none", row |-> 0])
    /\ tree \in {NoTree, StaleTree}
    /\ run = 0
    /\ pc = "idle"
    /\ prev = NoPrev
    /\ InitLocals

(***************************************************************************)
(* main()                                                                  *)
(***************************************************************************)
inputs == <<csvPresent, csv, store>>
lists == <<ref, recs, fold_map, fold_records, combined_records>>

\* an uncaught exception: the interpreter unwinds main() and the process exits
Abort(e) ==
    /\ err' = e
    /\ pc' = "aborted"

\* python prepare_data.py: a new process; step 0 removes the old tree
Invoke ==
    /\ pc \in {"idle", "done", "aborted"}
    /\ run < MaxRuns
    /\ run' = run + 1
    /\ tree' = RemoveOld(tree)
    /\ prev' = IF pc = "idle" THEN prev
               ELSE [assigned |-> fold_map # EmptyMap, map |-> fold_map,
                     test |-> fold_records, train |-> combined_records]
    /\ ref' = <<>>
    /\ recs' = <<>>
    /\ fold_map' = EmptyMap
    /\ fold_records' = EmptyLists
    /\ combined_records' = EmptyLists
    /\ pos' = Finished
    /\ loc' = NoLoc
    /\ err' = NoErr
    /\ printed' = FALSE
    /\ pc' = "read_ref"
    /\ UNCHANGED inputs

\* step 1: read and filter the reference table
ReadRef ==
    /\ pc = "read_ref"
    /\ IF csvPresent
       THEN /\ ref' = FilterRef(csv)
            /\ pc' = "assign"
            /\ err' = err
       ELSE /\ Abort(Raise("FileNotFoundError", 76, 0))
            /\ ref' = ref
    /\ UNCHANGED <<inputs, tree, run, recs, fold_map, fold_records, combined_records,
                   pos, loc, printed, prev>>

\* step 2: KFold refuses to split fewer samples than folds
AssignFolds ==
    /\ pc = "assign"
    /\ recs' = [k \in DOMAIN ref |-> ref[k].record]
    /\ IF Len(ref) < N_FOLDS
       THEN /\ Abort(Raise("ValueError", 84, 0))
            /\ fold_map' = fold_map
       ELSE /\ fold_map' = FoldMapOf(recs')
            /\ pc' = "build"
            /\ err' = err
    /\ UNCHANGED <<inputs, tree, run, ref, fold_records, combined_records, pos, loc,
                   printed, prev>>

\* step 3
BuildLists ==
    /\ pc = "build"
    /\ fold_records' = FoldRecordsOf(recs, fold_map)
    /\ combined_records' = [i \in FoldIdx |-> CombinedOf(recs, fold_map, i)]
    /\ pc' = "make_dirs"
    /\ UNCHANGED <<inputs, tree, run, ref, recs, fold_map, pos, loc, err, printed, prev>>

\* step 4, and entering the loop of step 5
MakeDirs ==
    /\ pc = "make_dirs"
    /\ tree' = MakeDirsTree(tree)
    /\ pos' = Settle([i |-> 0, phase |-> "test", idx |-> 0])
    /\ pc' = IF pos' = Finished THEN "print" ELSE "load"
    /\ UNCHANGED <<inputs, run, lists, loc, err, printed, prev>>

\* the loop body with the record's failure caught and the record written anyway
LoadBodySwallowing(next) ==
    LET rec == ListAt(pos)[pos.idx + 1]
        got == LoadEcg(store, rec)
        sel == Lookup(ref, rec)
    IN  /\ loc' = [rec |-> rec, raw |-> got.value,
                   proc |-> normalization_processing(signal_processing(got.value)),
                   lbl |-> sel[1], out |-> OutName(pos.idx)]
        /\ pc' = next
        /\ err' = err

\* raw = load_ecg(rec); proc = ...; lbl = int(ref.loc[...]); out = f"{idx}.npy"
LoadBody(next) ==
    LET rec == ListAt(pos)[pos.idx + 1]
        got == LoadEcg(store, rec)
        sel == Lookup(ref, rec)
    IN  IF ~got.ok
        THEN /\ Abort(got.exc)
             /\ loc' = [NoLoc EXCEPT !.rec = rec]
        ELSE IF Len(sel) # 1
        THEN /\ Abort(Raise("TypeError", IF pos.phase = "test" THEN 107 ELSE 123, rec))
             /\ loc' = [NoLoc EXCEPT !.rec = rec, !.raw = got.value,
                                     !.proc = normalization_processing(signal_processing(got.value))]
        ELSE /\ loc' = [rec |-> rec, raw |-> got.value,
                        proc |-> normalization_processing(signal_processing(got.value)),
                        lbl |-> sel[1], out |-> OutName(pos.idx)]
             /\ pc' = next
             /\ err' = err

unchangedInSave == <<inputs, run, lists, loc, err, printed, prev>>

\* after the last np.save of a record: the next record, list or fold, or the print
Step ==
    /\ pos' = Advance(pos)
    /\ pc' = IF pos' = Finished THEN "print" ELSE "load"

LoadTest ==
    /\ pc = "load" /\ pos.phase = "test"
    /\ LoadBody("save_data")
    /\ UNCHANGED <<inputs, tree, run, lists, pos, printed, prev>>

SaveTestData ==
    /\ pc = "save_data" /\ pos.phase = "test"
    /\ tree' = NpSave(tree, TestDataDir(pos.i), loc.out, loc.proc)
    /\ pc' = "save_label"
    /\ UNCHANGED <<unchangedInSave, pos>>

SaveTestLabel ==
    /\ pc = "save_label" /\ pos.phase = "test"
    /\ tree' = NpSave(tree, TestLabelDir(pos.i), loc.out, IntArray(loc.lbl))
    /\ pc' = "save_class_data"
    /\ UNCHANGED <<unchangedInSave, pos>>

SaveClassData ==
    /\ pc = "save_class_data"
    /\ tree' = NpSave(tree, ClassDataDir(pos.i, ClassDir(loc.lbl)), loc.out, loc.proc)
    /\ pc' = "save_class_label"
    /\ UNCHANGED <<unchangedInSave, pos>>

SaveClassLabel ==
    /\ pc = "save_class_label"
    /\ tree' = NpSave(tree, ClassLabelDir(pos.i, ClassDir(loc.lbl)), loc.out, IntArray(loc.lbl))
    /\ Step
    /\ UNCHANGED unchangedInSave

LoadTrain ==
    /\ pc = "load" /\ pos.phase = "train"
    /\ LoadBody("save_data")
    /\ UNCHANGED <<inputs, tree, run, lists, pos, printed, prev>>

SaveTrainData ==
    /\ pc = "save_data" /\ pos.phase = "train"
    /\ tree' = NpSave(tree, TrainDataDir(pos.i), loc.out, loc.proc)
    /\ pc' = "save_label"
    /\ UNCHANGED <<unchangedInSave, pos>>

SaveTrainLabel ==
    /\ pc = "save_label" /\ pos.phase = "train"
    /\ tree' = NpSave(tree, TrainLabelDir(pos.i), loc.out, IntArray(loc.lbl))
    /\ Step
    /\ UNCHANGED unchangedInSave

\* print("Done! ...")
Finish ==
    /\ pc = "print"
    /\ printed' = TRUE
    /\ pc' = "done"
    /\ UNCHANGED <<inputs, tree, run, lists, pos, loc, err, prev>>

Next ==
    \/ Invoke
    \/ ReadRef
    \/ AssignFolds
    \/ BuildLists
    \/ MakeDirs
    \/ LoadTest
    \/ SaveTestData
    \/ SaveTestLabel
    \/ SaveClassData
    \/ SaveClassLabel
    \/ LoadTrain
    \/ SaveTrainData
    \/ SaveTrainLabel
    \/ Finish

Spec == Init /\ [][Next]_vars

(***************************************************************************)
(* load_ecg on its own: one call on one record, for every combination of   *)
(* files the record can have                                               *)
(***************************************************************************)
FileStates ==
    {[mat |-> m, keys |-> k, dat |-> d, hea |-> h] :
        m \in BOOLEAN, k \in SUBSET {"val", "ecg"}, d \in BOOLEAN, h \in BOOLEAN}

InitLoad ==
    /\ csvPresent = FALSE
    /\ csv = <<>>
    /\ \E rec \in 1 .. MaxRows, f \in {g \in FileStates : g.mat \/ g.keys = {}} :
          /\ store = [r \in {rec} |-> f]
          /\ loc = [NoLoc EXCEPT !.rec = rec]
    /\ tree = NoTree
    /\ run = 0
    /\ pc = "call_load_ecg"
    /\ prev = NoPrev
    /\ ref = <<>>
    /\ recs = <<>>
    /\ fold_map = EmptyMap
    /\ fold_records = EmptyLists
    /\ combined_records = EmptyLists
    /\ pos = Finished
    /\ err = NoErr
    /\ printed = FALSE

\* raw = load_ecg(rec)
CallLoadEcg ==
    /\ pc = "call_load_ecg"
    /\ LET got == LoadEcg(store, loc.rec) IN
          /\ loc' = [loc EXCEPT !.raw = got.value]
          /\ err' = got.exc
          /\ pc' = IF got.ok THEN "returned" ELSE "raised"
    /\ UNCHANGED <<inputs, tree, run, lists, pos, printed, prev>>

NextLoad == CallLoadEcg

SpecLoad == InitLoad /\ [][NextLoad]_vars

(***************************************************************************)
(* Vocabulary of the properties                                            *)
(***************************************************************************)
\* steps 2 and 3 of the running invocation are complete
ListsBuilt == fold_map # EmptyMap /\ pc # "build"

\* the rows of the reference table whose label is N, A or O, read off the table itself
KnownRows == {k \in DOMAIN csv : csv[k].label \in {"N", "A", "O"}}
KnownIds == {csv[k].record : k \in KnownRows}
KnownIdSeq == LET kept == SelectSeq(csv, LAMBDA row : row.label \in {"N", "A", "O"})
              IN [k \in DOMAIN kept |-> kept[k].record]

Count(s, x) == Cardinality({k \in DOMAIN s : s[k] = x})

TestSet(i) == Range(fold_records[i])
TrainSet(i) == Range(combined_records[i])

\* the record a stored signal was computed from (the samples of record r are 10r+1 .. 10r+8)
RecOf(content) == content.data[1] \div 10

FilesIn(dir) == {f \in tree.files : f.dir = dir}
NamesIn(dir) == {f.name : f \in FilesIn(dir)}
FileAt(dir, name) == CHOOSE f \in FilesIn(dir) : f.name = name

\* C1: once the fold lists are built, the four test folds partition the filtered
\* records: every row labelled N, A or O has its record in exactly one test fold, no
\* record is in two test folds, the union of the test folds is the set of filtered
\* records (a record found only on rows with another label is in no fold), and no row
\* is lost or counted twice.
C1_TestFoldsPartition ==
    ListsBuilt =>
        /\ \A k \in KnownRows :
              Cardinality({i \in FoldIdx : csv[k].record \in TestSet(i)}) = 1
        /\ \A i \in FoldIdx, j \in FoldIdx : i # j => TestSet(i) \cap TestSet(j) = {}
        /\ UNION {TestSet(i) : i \in FoldIdx} = KnownIds
        /\ \A r \in KnownIds :
              SumTo([i \in FoldIdx |-> Count(fold_records[i], r)], N_FOLDS - 1)
                  = Count(KnownIdSeq, r)

C1_Witness ==
    /\ pc = "make_dirs"
    /\ \E k \in DOMAIN csv : csv[k].label = "~"
    /\ \E i \in FoldIdx : Cardinality(TestSet(i)) >= 2

TrainDirNames == [i \in FoldIdx |->
    IF i = 0 THEN "fold123" ELSE IF i = 1 THEN "fold023"
    ELSE IF i = 2 THEN "fold013" ELSE "fold012"]

\* C2: the train list of fold i holds exactly the filtered records whose test fold is
\* not i (in table order), so every record is in exactly N_FOLDS - 1 train lists and
\* never in the one paired with its own test fold; after a completed run the directory
\* named by the other three fold indices holds the signals of exactly those records.
C2_TrainIsComplement ==
    /\ ListsBuilt =>
          /\ \A i \in FoldIdx :
                /\ TrainSet(i) = KnownIds \ TestSet(i)
                /\ combined_records[i] = SelectSeq(KnownIdSeq, LAMBDA r : r \notin TestSet(i))
          /\ \A r \in KnownIds :
                /\ Cardinality({i \in FoldIdx : r \in TrainSet(i)}) = N_FOLDS - 1
                /\ \A i \in FoldIdx : r \in TestSet(i) => r \notin TrainSet(i)
    /\ pc = "done" =>
          \A i \in FoldIdx :
             {RecOf(f.content) : f \in FilesIn(<<TrainDirNames[i], "data">>)}
                 = KnownIds \ TestSet(i)

C2_Witness ==
    /\ pc = "done"
    /\ \E i \in FoldIdx : Cardinality(TestSet(i)) >= 2
    /\ \E k \in DOMAIN csv : csv[k].label = "~"

LabelOfRecord(r) == csv[CHOOSE k \in KnownRows : csv[k].record = r].label
ClassOfLabel == [N |-> "normal", A |-> "AF", O |-> "other"]
IntOfLabel == [N |-> 0, A |-> 1, O |-> 2]
TestDirNames == [i \in FoldIdx |->
    IF i = 0 THEN "fold0" ELSE IF i = 1 THEN "fold1" ELSE IF i = 2 THEN "fold2" ELSE "fold3"]

\* C3: after a completed run every test-fold record fold{i}/data/{idx}.npy,
\* fold{i}/label/{idx}.npy has exactly one per-class copy, in the class directory of
\* its label (N/0 normal, A/1 AF, O/2 other), under the same name and with the same
\* data and label contents; the train directories hold no per-class copy.
C3_ClassCopies ==
    pc = "done" =>
        /\ \A i \in FoldIdx : \A f \in FilesIn(<<TestDirNames[i], "data">>) :
              LET lab == LabelOfRecord(RecOf(f.content))
                  cls == ClassOfLabel[lab]
              IN /\ {c \in Classes : f.name \in NamesIn(<<TestDirNames[i], c, "data">>)} = {cls}
                 /\ {c \in Classes : f.name \in NamesIn(<<TestDirNames[i], c, "label">>)} = {cls}
                 /\ FileAt(<<TestDirNames[i], cls, "data">>, f.name).content = f.content
                 /\ FileAt(<<TestDirNames[i], "label">>, f.name).content.data = <<IntOfLabel[lab]>>
                 /\ FileAt(<<TestDirNames[i], cls, "label">>, f.name).content
                       = FileAt(<<TestDirNames[i], "label">>, f.name).content
        /\ \A f \in tree.files : Len(f.dir) = 3 => \E i \in FoldIdx : f.dir[1] = TestDirNames[i]

C3_Witness ==
    /\ pc = "done"
    /\ \E i \in FoldIdx :
          /\ FilesIn(<<TestDirNames[i], "AF", "data">>) # {}
          /\ FilesIn(<<TestDirNames[i], "normal", "data">>) # {}

\* C4: load_ecg resolves a record in strict order.  With the MATLAB file present the
\* result comes from that file alone (never from WFDB, even when the WFDB files are
\* there too); with the MATLAB file absent and the WFDB pair present the result is the
\* first channel of the WFDB signal; with neither form present the call fails with a
\* not-found error that names the record.
C4_LoadOrder ==
    pc \in {"returned", "raised"} =>
        LET r == loc.rec
            f == store[r]
            ch0 == <<WfdbSignal(r)[1][1], WfdbSignal(r)[2][1]>>
        IN /\ f.mat =>
                 /\ pc = "returned" => loc.raw.data \in {MatVar(r, "val")[1], MatVar(r, "ecg")[1]}
                 /\ pc = "raised" => err.type = "KeyError"
           /\ (~f.mat /\ f.dat /\ f.hea) =>
                 /\ pc = "returned"
                 /\ loc.raw = [dtype |-> "float32", data |-> ch0, via |-> <<>>]
           /\ (~f.mat /\ ~(f.dat /\ f.hea)) =>
                 /\ pc = "raised"
                 /\ err.type = "FileNotFoundError"
                 /\ err.rec = r
           /\ (pc = "returned" /\ loc.raw.data = ch0) => ~f.mat

C4_Witness ==
    /\ pc = "returned"
    /\ store[loc.rec].mat /\ store[loc.rec].dat /\ store[loc.rec].hea
    /\ loc.raw.data = MatVar(loc.rec, "val")[1]

\* C5: when the MATLAB file of the record being loaded exists, the signal is field
\* `val` if the file has it, otherwise field `ecg`; if it has neither, load_ecg raises
\* the missing-variable error (KeyError) without turning to the WFDB pair, even when
\* that pair exists, and the error ends the run: nothing is printed.
C5_MatFields ==
    (run >= 1 /\ loc.rec # 0 /\ store[loc.rec].mat) =>
        LET r == loc.rec
            f == store[r]
        IN /\ "val" \in f.keys =>
                 loc.raw = [dtype |-> "float32", data |-> MatVar(r, "val")[1], via |-> <<>>]
           /\ ("val" \notin f.keys /\ "ecg" \in f.keys) =>
                 loc.raw = [dtype |-> "float32", data |-> MatVar(r, "ecg")[1], via |-> <<>>]
           /\ f.keys = {} =>
                 /\ pc = "aborted"
                 /\ err = [type |-> "KeyError", line |-> 44, rec |-> r]
                 /\ ~printed
                 /\ loc.raw = NoArray

C5_Witness ==
    /\ pc = "aborted"
    /\ err.type = "KeyError"
    /\ store[err.rec].dat /\ store[err.rec].hea
    /\ tree.files # {}

(***************************************************************************)
(* Positions of the loop and the files each one writes                     *)
(***************************************************************************)
ListOf(i, phase) == IF phase = "test" THEN fold_records[i] ELSE combined_records[i]

AllPos ==
    {p \in [i : FoldIdx, phase : {"test", "train"}, idx : 0 .. (MaxRows - 1)] :
        p.idx < Len(ListOf(p.i, p.phase))}

Before(q, p) ==
    \/ q.i < p.i
    \/ /\ q.i = p.i
       /\ \/ q.phase = "test" /\ p.phase = "train"
          \/ q.phase = p.phase /\ q.idx < p.idx

RecAt(q) == ListOf(q.i, q.phase)[q.idx + 1]
NpyName(k) == ToString(k) \o ".npy"

\* <<directory, name>> of the files the loop body writes at position q
KeysOf(q) ==
    IF q.phase = "test"
    THEN LET cls == ClassOfLabel[LabelOfRecord(RecAt(q))] IN
         {<<<<TestDirNames[q.i], "data">>, NpyName(q.idx)>>,
          <<<<TestDirNames[q.i], "label">>, NpyName(q.idx)>>,
          <<<<TestDirNames[q.i], cls, "data">>, NpyName(q.idx)>>,
          <<<<TestDirNames[q.i], cls, "label">>, NpyName(q.idx)>>}
    ELSE {<<<<TrainDirNames[q.i], "data">>, NpyName(q.idx)>>,
          <<<<TrainDirNames[q.i], "label">>, NpyName(q.idx)>>}

\* a record the loop body cannot process: no usable signal file, or more than one row
Broken(r) ==
    \/ store[r].mat /\ store[r].keys \cap {"val", "ecg"} = {}
    \/ ~store[r].mat /\ ~(store[r].dat /\ store[r].hea)
    \/ Count(KnownIdSeq, r) # 1

InLoop == pc \in {"load", "save_data", "save_label", "save_class_data", "save_class_label"}
LoopLines == {44, 47, 50, 107, 123}

\* C6: a failure on a record ends the run at once.  The run never gets past a record
\* it cannot process; once an exception has been raised the invocation stays aborted
\* (no retry, no skip) and prints nothing; and the tree it leaves holds exactly the
\* files of the records processed before the failing one - none for the failing
\* record at that position, none for a later record or fold.
C6_FailureAborts ==
    /\ err.type # "none" => (pc = "aborted" /\ ~printed)
    /\ printed => pc = "done"
    /\ (InLoop \/ pc \in {"print", "done"}) =>
          \A q \in AllPos : Before(q, pos) => ~Broken(RecAt(q))
    /\ (pc \in {"save_data", "save_label", "save_class_data", "save_class_label"}) =>
          ~Broken(RecAt(pos))
    /\ (pc = "aborted" /\ err.line \in LoopLines) =>
          /\ Broken(RecAt(pos))
          /\ err.rec = RecAt(pos)
          /\ {<<f.dir, f.name>> : f \in tree.files}
                = UNION {KeysOf(q) : q \in {p \in AllPos : Before(p, pos)}}
          /\ \A f \in tree.files : f.run = run

C6_Witness ==
    /\ pc = "aborted"
    /\ err.line \in LoopLines
    /\ pos.phase = "train"
    /\ pos.idx >= 1
    /\ tree.files # {}

\* C7 as stated: whenever an invocation has ended, the tree exists with the full
\* layout and holds no file of an earlier run.
C7_Original ==
    (run >= 1 /\ pc \in {"done", "aborted"}) =>
        /\ Layout \subseteq tree.dirs
        /\ \A f \in tree.files : f.run = run

\* C7 amended: from the first step of an invocation on, nothing of an earlier run is
\* left (no file, no foreign directory); once the invocation has reached make_dirs
\* the tree has exactly the full layout; an invocation that fails before make_dirs
\* (reference table unreadable, fewer than N_FOLDS filtered rows) leaves no tree.
C7_FreshTree ==
    run >= 1 =>
        /\ \A f \in tree.files : f.run = run
        /\ tree.dirs \subseteq Layout
        /\ (InLoop \/ pc \in {"print", "done"} \/ (pc = "aborted" /\ err.line \in LoopLines))
              => tree.dirs = Layout
        /\ (pc \in {"read_ref", "assign", "build", "make_dirs"}
            \/ (pc = "aborted" /\ err.line \notin LoopLines))
              => tree = NoTree

C7_Witness ==
    /\ run = 2
    /\ pc = "done"
    /\ prev.assigned
    /\ tree.files # {}

\* C8: after a completed run every test directory and every train directory holds, in
\* data and in label, exactly the files 0.npy .. (n-1).npy, n being the length of the
\* fold's list; the list is in reference-table order; file k holds the processed
\* signal of the k-th record of the list and that record's integer label.
C8_DenseIndexing ==
    pc = "done" =>
        \A i \in FoldIdx : \A ph \in {"test", "train"} :
            LET list == ListOf(i, ph)
                dir == IF ph = "test" THEN TestDirNames[i] ELSE TrainDirNames[i]
                members == IF ph = "test" THEN TestSet(i) ELSE KnownIds \ TestSet(i)
            IN /\ list = SelectSeq(KnownIdSeq, LAMBDA r : r \in members)
               /\ \A sub \in Subs :
                     /\ NamesIn(<<dir, sub>>) = {NpyName(k) : k \in 0 .. (Len(list) - 1)}
                     /\ Cardinality(FilesIn(<<dir, sub>>)) = Len(list)
               /\ \A k \in 0 .. (Len(list) - 1) :
                     /\ RecOf(FileAt(<<dir, "data">>, NpyName(k)).content) = list[k + 1]
                     /\ FileAt(<<dir, "data">>, NpyName(k)).content.via
                           = <<"signal_processing", "normalization_processing">>
                     /\ FileAt(<<dir, "label">>, NpyName(k)).content.data
                           = <<IntOfLabel[LabelOfRecord(list[k + 1])]>>

C8_Witness ==
    /\ pc = "done"
    /\ \E i \in FoldIdx : Len(fold_records[i]) >= 2
    /\ \E k \in DOMAIN csv : csv[k].label = "~"

Last(s) == s[Len(s)]

\* C10: in every state of a run every label file has a data file of the same name in
\* the sibling data directory, and every file of a per-class directory of fold{i} has
\* a file of the same name in fold{i}'s own data or label directory.
C10_WriteOrder ==
    run >= 1 =>
        \A f \in tree.files :
            /\ Last(f.dir) = "label" =>
                  f.name \in NamesIn([f.dir EXCEPT ![Len(f.dir)] = "data"])
            /\ Len(f.dir) = 3 => f.name \in NamesIn(<<f.dir[1], f.dir[3]>>)

\* ... while a data file can be there without its label file
C10_Witness ==
    /\ run >= 1
    /\ pc = "save_label"
    /\ \E f \in tree.files :
          /\ Last(f.dir) = "data"
          /\ f.name \notin NamesIn([f.dir EXCEPT ![Len(f.dir)] = "label"])
    /\ \E f \in tree.files : Len(f.dir) = 3

====
